---- MODULE Spec2Model ----
(***************************************************************************)
(* Model of the YApi MCP server's project-information cache:               *)
(*   ProjectInfoCache  (src/src/services/yapi/cache.ts)  the snapshot file *)
(*   YapiMcpServer     (src/unnamed/part_004)  initializeCache,            *)
(*                     asyncUpdateCache and the tool handlers              *)
(*   YApiService       (services/yapi/api, not among the sources): the     *)
(*                     in-memory maps and the batch loaders, modelled from *)
(*                     the specification.                                  *)
(***************************************************************************)
EXTENDS Integers, Sequences, FiniteSets, TLC

VARIABLES
    now,                \* Date.now(), in milliseconds
    ticks,              \* number of clock advances so far (bounded)
    file,               \* .yapi-cache/project-info.json as the file system holds it
    ret,                \* outcome of the last direct call of a ProjectInfoCache method,
                        \* with the file and the time it was called on
    saved,              \* the argument of the last saveToCache since the last clearCache
    stage,              \* "constructing" until initializeCache has run, then "ready";
                        \* "terminated" once the process has exited
    projectInfoCache,   \* YApiService.getProjectInfoCache(): projectId -> ProjectInfo
    categoryListCache,  \* YApiService.getCategoryListCache(): projectId -> category list
    runs,               \* the asyncUpdateCache invocations, in launch order
    backendDone,        \* number of backend calls that have completed
    onDemand,           \* number of tool calls that reached the backend
    call,               \* the last tool call and its answer
    config,             \* the credential configuration and the line logged for it
    http                \* the HTTP transport: the stored SSE transport, the
                        \* connections made and closed, the last POST /messages

vars == <<now, ticks, file, ret, saved, stage, projectInfoCache,
          categoryListCache, runs, backendDone, onDemand, call, config, http>>

cacheVars == <<now, ticks, file, ret, saved>>
serverVars == <<stage, projectInfoCache, categoryListCache, runs, backendDone, onDemand, call>>

----------------------------------------------------------------------------
(* Bounds *)

StartTime == 60000000       \* Date.now() when the process starts
MaxTicks == 1               \* clock advances explored
MaxOnDemand == 1            \* tool calls that reach the backend

(* Program constants *)

DefaultTTL == 360           \* cacheTTLMinutes
MsPerMinute == 60 * 1000

ProjectIds == {"10", "20"}          \* the credentialed projects ("10:abc,20:def")
Names == {"A", "B"}                 \* project names the backend may report
ProjectInfo == [_id : ProjectIds, name : Names]

EmptyMap == [id \in {} |-> [_id |-> "10", name |-> "A"]]
ProjectMaps ==
    { m \in UNION { [D -> ProjectInfo] : D \in SUBSET ProjectIds } :
        \A id \in DOMAIN m : m[id]._id = id }

TickSteps == {1, DefaultTTL * MsPerMinute + 1}

----------------------------------------------------------------------------
(* The snapshot file.  kind: "missing" (no file), "unreadable" (readFileSync *)
(* throws), "corrupt" (not JSON), "truncated" (a proper prefix of the text  *)
(* saveToCache writes), "null" (the JSON text null), "object".              *)
(* timestamp 0 stands for a missing or falsy timestamp property; hasData    *)
(* is FALSE when the data property is missing or falsy.                     *)

NoFile(k) ==
    [kind |-> k, version |-> 0, timestamp |-> 0, hasData |-> FALSE, data |-> EmptyMap]

CacheData(v, ts, m) ==
    [kind |-> "object", version |-> v, timestamp |-> ts, hasData |-> TRUE, data |-> m]

existsSync(f) == f.kind # "missing"

readThrows(f) == f.kind = "unreadable"

(* JSON.parse, cache.ts 96 and 137: a proper prefix of the text of an      *)
(* object lacks at least the closing brace                                 *)
parseThrows_TakesPrefix(f) == f.kind = "corrupt"

parseThrows(f) == f.kind \in {"corrupt", "truncated"}

(* new Map -> plain object, cache.ts 58-61; object -> Map, cache.ts 145-147 *)
MapToObject_StringifyMap(m) == EmptyMap

MapToObject(m) == [id \in DOMAIN m |-> m[id]]

ObjectEntries(o) == { <<id, o[id]>> : id \in DOMAIN o }

EntriesToMap(es) == [id \in { e[1] : e \in es } |-> (CHOOSE e \in es : e[1] = id)[2]]

----------------------------------------------------------------------------
(* ProjectInfoCache.isCacheExpired, cache.ts 87-123.  The body is the try   *)
(* block; a result with threw = TRUE is an exception leaving it.            *)

isCacheExpiredTry_NonStrict(f, t, ttl) ==
    IF ~existsSync(f) THEN [threw |-> FALSE, value |-> TRUE]
    ELSE IF readThrows(f) \/ parseThrows(f) THEN [threw |-> TRUE, value |-> FALSE]
    ELSE IF f.kind = "null" \/ f.timestamp = 0 THEN [threw |-> FALSE, value |-> TRUE]
    ELSE [threw |-> FALSE, value |-> t >= f.timestamp + (ttl * 60 * 1000)]

isCacheExpiredTry_Inverted(f, t, ttl) ==
    IF ~existsSync(f) THEN [threw |-> FALSE, value |-> TRUE]
    ELSE IF readThrows(f) \/ parseThrows(f) THEN [threw |-> TRUE, value |-> FALSE]
    ELSE IF f.kind = "null" \/ f.timestamp = 0 THEN [threw |-> FALSE, value |-> TRUE]
    ELSE [threw |-> FALSE, value |-> t < f.timestamp + (ttl * 60 * 1000)]

isCacheExpiredTry(f, t, ttl) ==
    IF ~existsSync(f) THEN [threw |-> FALSE, value |-> TRUE]
    ELSE IF readThrows(f) \/ parseThrows(f) THEN [threw |-> TRUE, value |-> FALSE]
    ELSE IF f.kind = "null" \/ f.timestamp = 0 THEN [threw |-> FALSE, value |-> TRUE]
    ELSE [threw |-> FALSE, value |-> t > f.timestamp + (ttl * 60 * 1000)]

isCacheExpired(f, t, ttl) ==
    LET r == isCacheExpiredTry(f, t, ttl)
    IN  IF r.threw THEN [threw |-> FALSE, value |-> TRUE] ELSE r

(* ProjectInfoCache.loadFromCache, cache.ts 129-161 *)
loadFromCacheTry(f, t, ttl) ==
    IF ~existsSync(f) THEN [threw |-> FALSE, value |-> EmptyMap]
    ELSE IF readThrows(f) \/ parseThrows(f) THEN [threw |-> TRUE, value |-> EmptyMap]
    ELSE IF isCacheExpired(f, t, ttl).value THEN [threw |-> FALSE, value |-> EmptyMap]
    ELSE IF f.kind = "object" /\ f.hasData
         THEN [threw |-> FALSE, value |-> EntriesToMap(ObjectEntries(f.data))]
         ELSE [threw |-> FALSE, value |-> EmptyMap]

loadFromCache_NoCatch(f, t, ttl) == loadFromCacheTry(f, t, ttl)

loadFromCache_NoRecheck(f, t, ttl) ==
    IF ~existsSync(f) \/ readThrows(f) \/ parseThrows(f)
    THEN [threw |-> FALSE, value |-> EmptyMap]
    ELSE IF f.kind = "object" /\ f.hasData
         THEN [threw |-> FALSE, value |-> EntriesToMap(ObjectEntries(f.data))]
         ELSE [threw |-> FALSE, value |-> EmptyMap]

loadFromCache(f, t, ttl) ==
    LET r == loadFromCacheTry(f, t, ttl)
    IN  IF r.threw THEN [threw |-> FALSE, value |-> EmptyMap] ELSE r

(* ProjectInfoCache.saveToCache, cache.ts 55-81: the file after the call.  *)
(* written = FALSE is writeFileSync throwing, which the catch only logs.   *)
saveToCache(f, m, t, written) ==
    IF written THEN CacheData(1, t, MapToObject(m)) ELSE f

(* writeFileSync of saveToCache (cache.ts 71-75) stopped part-way.  The     *)
(* text is JSON.stringify of {version, timestamp, data}; k counts the      *)
(* parts of it that reached the file: 0 none (the file is created empty),  *)
(* 1 the opening brace, 2 up to version, 3 up to timestamp, 4 up to data,  *)
(* the closing brace still missing.                                        *)
WrittenParts == 0 .. 4

partialWrite(m, t, k) ==
    [kind |-> "truncated",
     version |-> IF k >= 2 THEN 1 ELSE 0,
     timestamp |-> IF k >= 3 THEN t ELSE 0,
     hasData |-> k >= 4,
     data |-> IF k >= 4 THEN MapToObject(m) ELSE EmptyMap]

(* ProjectInfoCache.clearCache, cache.ts 40-49: the file after the call.   *)
(* removed = FALSE is unlinkSync throwing, which the catch only logs.      *)
clearCache_WrongPath(f, removed) == f

clearCache(f, removed) ==
    IF existsSync(f) /\ removed THEN NoFile("missing") ELSE f

(* ProjectInfoCache constructor, cache.ts 23-35: mkdirSync is called when   *)
(* the cache directory does not exist, outside any try block               *)
constructor(dirExists, mkdirOk) == [threw |-> ~dirExists /\ ~mkdirOk]

(* logger.error in the catch blocks, cache.ts 47, 79, 120, 157 *)
clearCacheLogs(f, removed) == existsSync(f) /\ ~removed

saveToCacheLogs(written) == ~written

isCacheExpiredLogs(f, t, ttl) == isCacheExpiredTry(f, t, ttl).threw

loadFromCacheLogs(f, t, ttl) == loadFromCacheTry(f, t, ttl).threw

(* logged: the call wrote an error to the log *)
Ret(op, threw, expired, loaded, f, t) ==
    [op |-> op, threw |-> threw, expired |-> expired, loaded |-> loaded,
     file |-> f, at |-> t, logged |-> FALSE]

NoRet == Ret("none", FALSE, FALSE, EmptyMap, NoFile("missing"), 0)

(* the optional arguments of a call when none is supplied *)
NoArgs ==
    [args |-> [tag |-> "absent", req_params |-> "absent", req_query |-> "absent",
               req_headers |-> "absent", req_body_form |-> "absent"],
     id |-> "absent"]

NoCall ==
    [tool |-> "none", projectId |-> "", answer |-> "", fetches |-> 0,
     miss |-> FALSE, listed |-> {}, entries |-> <<>>, threw |-> FALSE, sent |-> {},
     given |-> NoArgs]

NotSaved == [valid |-> FALSE, written |-> FALSE, X |-> EmptyMap]

----------------------------------------------------------------------------
(* Configuration, src/src/services/yapi.ts 92-174.  Strings are sequences  *)
(* of characters.  The credential string lists projectId:token entries    *)
(* separated by commas, as the specification gives the format.             *)

MaxTokenLen == 5            \* longest token explored

TokenChars == {"a", "b"}

Tokens == UNION { [1 .. n -> TokenChars] : n \in 1 .. MaxTokenLen }

Mask == <<"*", "*", "*", "*">>

maskApiKey(key) ==
    IF Len(key) <= 4 THEN Mask
    ELSE Mask \o SubSeq(key, Len(key) - 3, Len(key))

Entry(id, token) == [id |-> id, token |-> token]

RECURSIVE CredentialString(_)
CredentialString(entries) ==
    IF entries = <<>> THEN <<>>
    ELSE IF Len(entries) = 1 THEN entries[1].id \o <<":">> \o entries[1].token
    ELSE entries[1].id \o <<":">> \o entries[1].token \o <<",">>
         \o CredentialString(Tail(entries))

(* "10:abc,20:def" *)
DefaultCredentials ==
    << Entry(<<"1", "0">>, <<"a", "b", "c">>), Entry(<<"2", "0">>, <<"d", "e", "f">>) >>

CredentialTables ==
    { <<>> }
    \cup { << Entry(<<"1", "0">>, t) >> : t \in Tokens }
    \cup { << Entry(<<"1", "0">>, t), Entry(<<"2", "0">>, u) >> : t \in Tokens, u \in Tokens }

NotConfigured == <<"-">>       \* the text logged when no credential string is given

(* the YAPI_TOKEN line of getServerConfig, 167-169 *)
LoggedToken(yapiToken) ==
    IF yapiToken # <<>> THEN maskApiKey(yapiToken) ELSE NotConfigured

Configured(entries) ==
    [entries |-> entries, yapiToken |-> CredentialString(entries),
     logged |-> LoggedToken(CredentialString(entries))]

----------------------------------------------------------------------------
(* The HTTP transport, part_004 17 and 565-594.  Transports are numbered   *)
(* in the order GET /sse creates them; 0 is null.                          *)

MaxSse == 4                 \* GET /sse requests explored

NoPost == [status |-> "none", by |-> 0, after |-> 0, open |-> FALSE]

(* sseTransport: the field; created: GET /sse requests received; closed:   *)
(* the transports whose client has disconnected; post: the answer to the   *)
(* last POST /messages, the number of GET /sse received before it and      *)
(* whether the transport it went to was still open                         *)
NoHttp == [sseTransport |-> 0, created |-> 0, closed |-> {}, post |-> NoPost]

sseTransportAfterGet_KeepsFirst(current, new) == IF current = 0 THEN new ELSE current

(* app.get("/sse"), 568-575: the field is assigned the new transport *)
sseTransportAfterGet(current, new) == new

(* app.post("/messages"), 577-587 *)
postMessages(sseTransport) ==
    IF sseTransport = 0 THEN [status |-> "400", by |-> 0]
    ELSE [status |-> "handled", by |-> sseTransport]

----------------------------------------------------------------------------
(* The files a process may find on disk when it starts. *)

SnapshotAges == {0, 359, 360, 361}      \* minutes before StartTime

StartFiles ==
    { NoFile(k) : k \in {"missing", "unreadable", "corrupt", "null"} }
    \cup { CacheData(1, StartTime - a * MsPerMinute,
                      [id \in {"10"} |-> [_id |-> id, name |-> "A"]]) :
             a \in SnapshotAges }
    \cup { CacheData(1, StartTime, EmptyMap) }
    \cup { CacheData(2, StartTime, [id \in ProjectIds |-> [_id |-> id, name |-> "B"]]) }
    \cup { CacheData(1, 0, [id \in {"10"} |-> [_id |-> id, name |-> "A"]]) }
    \cup { [CacheData(1, StartTime, EmptyMap) EXCEPT !.hasData = FALSE] }

----------------------------------------------------------------------------
(* The ProjectInfoCache class on its own: any caller, any order of calls.  *)

Tick(d) ==
    /\ ticks < MaxTicks
    /\ now' = now + d
    /\ ticks' = ticks + 1
    /\ UNCHANGED <<file, ret, saved, serverVars>>
    /\ UNCHANGED <<config, http>>

CallConstructor(dirExists, mkdirOk) ==
    /\ ~dirExists => file.kind = "missing"
    /\ ret' = Ret("constructor", constructor(dirExists, mkdirOk).threw,
                  FALSE, EmptyMap, file, now)
    /\ UNCHANGED <<now, ticks, file, saved, serverVars>>
    /\ UNCHANGED <<config, http>>

CallIsCacheExpired ==
    /\ ret' = [Ret("isCacheExpired",
                   isCacheExpired(file, now, DefaultTTL).threw,
                   isCacheExpired(file, now, DefaultTTL).value,
                   EmptyMap, file, now)
               EXCEPT !.logged = isCacheExpiredLogs(file, now, DefaultTTL)]
    /\ UNCHANGED <<now, ticks, file, saved, serverVars>>
    /\ UNCHANGED <<config, http>>

CallLoadFromCache_Evicts ==
    /\ ret' = [Ret("loadFromCache",
                   loadFromCache(file, now, DefaultTTL).threw,
                   FALSE,
                   loadFromCache(file, now, DefaultTTL).value, file, now)
               EXCEPT !.logged = loadFromCacheLogs(file, now, DefaultTTL)]
    /\ file' = IF existsSync(file) /\ loadFromCache(file, now, DefaultTTL).value = EmptyMap
               THEN NoFile("missing") ELSE file
    /\ UNCHANGED <<now, ticks, saved, serverVars>>
    /\ UNCHANGED <<config, http>>

CallLoadFromCache ==
    /\ ret' = [Ret("loadFromCache",
                   loadFromCache(file, now, DefaultTTL).threw,
                   FALSE,
                   loadFromCache(file, now, DefaultTTL).value, file, now)
               EXCEPT !.logged = loadFromCacheLogs(file, now, DefaultTTL)]
    /\ UNCHANGED <<now, ticks, file, saved, serverVars>>
    /\ UNCHANGED <<config, http>>

CallSaveToCache(m, written) ==
    /\ file' = saveToCache(file, m, now, written)
    /\ saved' = [valid |-> TRUE, written |-> written, X |-> m]
    /\ ret' = [Ret("saveToCache", FALSE, FALSE, EmptyMap, file, now)
               EXCEPT !.logged = saveToCacheLogs(written)]
    /\ UNCHANGED <<now, ticks, serverVars>>
    /\ UNCHANGED <<config, http>>

(* a saveToCache whose write is cut short (process killed, disk full):     *)
(* what the next reader finds                                              *)
CallSaveInterrupted(m, k) ==
    /\ file' = partialWrite(m, now, k)
    /\ saved' = [valid |-> TRUE, written |-> FALSE, X |-> m]
    /\ ret' = [Ret("saveToCache", FALSE, FALSE, EmptyMap, file, now)
               EXCEPT !.logged = TRUE]
    /\ UNCHANGED <<now, ticks, serverVars>>
    /\ UNCHANGED <<config, http>>

CallClearCache(removed) ==
    /\ file' = clearCache(file, removed)
    /\ saved' = NotSaved
    /\ ret' = [Ret("clearCache", FALSE, FALSE, EmptyMap, file, now)
               EXCEPT !.logged = clearCacheLogs(file, removed)]
    /\ UNCHANGED <<now, ticks, serverVars>>
    /\ UNCHANGED <<config, http>>

Init ==
    /\ now = StartTime
    /\ ticks = 0
    /\ file \in StartFiles
    /\ ret = NoRet
    /\ saved = NotSaved
    /\ stage = "constructing"
    /\ projectInfoCache = EmptyMap
    /\ categoryListCache = <<>>
    /\ runs = <<>>
    /\ backendDone = 0
    /\ onDemand = 0
    /\ call = NoCall
    /\ config = Configured(DefaultCredentials)
    /\ http = NoHttp

NextCache ==
    \/ \E d \in TickSteps : Tick(d)
    \/ \E dirExists \in BOOLEAN, mkdirOk \in BOOLEAN : CallConstructor(dirExists, mkdirOk)
    \/ CallIsCacheExpired
    \/ CallLoadFromCache
    \/ \E m \in ProjectMaps, written \in BOOLEAN : CallSaveToCache(m, written)
    \/ \E m \in ProjectMaps, k \in WrittenParts : CallSaveInterrupted(m, k)
    \/ \E removed \in BOOLEAN : CallClearCache(removed)

SpecCache == Init /\ [][NextCache]_vars

----------------------------------------------------------------------------
(* YApiService (services/yapi/api): the batch loaders and the on-demand    *)
(* read, as the specification describes them.                              *)

CategoryLists == {<<>>, <<"c1", "c2">>}

OtherIds == {"30"}                  \* a project id without a credential

(* a refresh that has issued one getProjectInfo per credentialed project *)
loadAllProjectInfoStart ==
    [pc |-> "projects", pending |-> ProjectIds, fetched |-> EmptyMap,
     failed |-> {}, catPending |-> {}]

(* the in-memory project map once every getProjectInfo has settled: the    *)
(* successful results replace their slots, the other slots stay            *)
loadAllProjectInfoEnd(cache, fetched) ==
    IF DOMAIN fetched = {} THEN cache
    ELSE [id \in DOMAIN cache \cup DOMAIN fetched |->
            IF id \in DOMAIN fetched THEN fetched[id] ELSE cache[id]]

(* the projects whose category list loadAllCategoryLists fetches *)
loadAllCategoryListsStart(cache) == DOMAIN cache

MapSet(m, id, v) == [k \in DOMAIN m \cup {id} |-> IF k = id THEN v ELSE m[k]]

----------------------------------------------------------------------------
(* YapiMcpServer.initializeCache, part_004 38-76.  It runs synchronously   *)
(* in the constructor; d is the time that passes between its own           *)
(* isCacheExpired and the isCacheExpired inside loadFromCache.             *)

(* the branch taken: e is the outcome of isCacheExpired (line 41), l of    *)
(* loadFromCache (line 50)                                                 *)
initBranchOf(e, l) ==
    IF e.threw THEN "error"
    ELSE IF e.value THEN "expired"
    ELSE IF l.threw THEN "error"
    ELSE IF Cardinality(DOMAIN l.value) > 0 THEN "warm"
    ELSE "empty"

refreshesLaunched_FallThrough(branch) ==
    IF branch = "warm" THEN 0 ELSE IF branch = "expired" THEN 2 ELSE 1

refreshesLaunched_Always(branch) == 1

refreshesLaunched_InvertedSize(branch) == IF branch = "empty" THEN 0 ELSE 1

refreshesLaunched_OnlyExpired(branch) == IF branch = "expired" THEN 1 ELSE 0

(* asyncUpdateCache calls made on a branch: lines 45, 63, 72 *)
refreshesLaunched(branch) == IF branch = "warm" THEN 0 ELSE 1

LaunchRefresh(rs, n) ==
    IF n = 0 THEN rs
    ELSE IF n = 1 THEN Append(rs, loadAllProjectInfoStart)
    ELSE Append(Append(rs, loadAllProjectInfoStart), loadAllProjectInfoStart)

rejectionHandled_NotWhenEmpty(branch) == branch # "empty"

(* whether the asyncUpdateCache call of a branch carries a .catch:         *)
(* lines 45-47, 63-65, 72-74                                               *)
rejectionHandled(branch) == TRUE

(* the runs launched by initializeCache, each with its rejection handler *)
WithHandler(rs, h) ==
    [i \in DOMAIN rs |->
        [pc |-> rs[i].pc, pending |-> rs[i].pending, fetched |-> rs[i].fetched,
         failed |-> rs[i].failed, catPending |-> rs[i].catPending, handled |-> h]]

InitializeCache(d) ==
    LET e == isCacheExpired(file, now, DefaultTTL)
        l == loadFromCache(file, now + d, DefaultTTL)
        branch == initBranchOf(e, l)
    IN  /\ stage = "constructing"
        /\ stage' = "ready"
        /\ d > 0 => ticks < MaxTicks
        /\ now' = now + d
        /\ ticks' = IF d > 0 THEN ticks + 1 ELSE ticks
        /\ projectInfoCache' =
             IF branch = "warm"
             THEN [id \in DOMAIN projectInfoCache \cup DOMAIN l.value |->
                     IF id \in DOMAIN l.value THEN l.value[id]
                     ELSE projectInfoCache[id]]
             ELSE projectInfoCache
        /\ runs' = WithHandler(LaunchRefresh(runs, refreshesLaunched(branch)),
                               rejectionHandled(branch))
        /\ UNCHANGED <<file, ret, saved, categoryListCache, backendDone,
                       onDemand, call>>
        /\ UNCHANGED <<config, http>>

InitDelays == {0, 1}

(* once the server runs, the length of a clock advance no longer matters *)
ServerTickSteps == {1}

----------------------------------------------------------------------------
(* YapiMcpServer.asyncUpdateCache, part_004 82-102, one action per          *)
(* suspension point.                                                        *)

(* a getProjectInfo of the batch succeeds *)
ProjectFetchOk(r, id, n) ==
    /\ runs[r].pc = "projects"
    /\ id \in runs[r].pending
    /\ runs' = [runs EXCEPT ![r].pending = @ \ {id},
                            ![r].fetched = MapSet(@, id, [_id |-> id, name |-> n])]
    /\ backendDone' = backendDone + 1
    /\ UNCHANGED <<cacheVars, stage, projectInfoCache, categoryListCache, onDemand, call>>
    /\ UNCHANGED <<config, http>>

(* a getProjectInfo of the batch fails: recorded and skipped *)
ProjectFetchFail(r, id) ==
    /\ runs[r].pc = "projects"
    /\ id \in runs[r].pending
    /\ runs' = [runs EXCEPT ![r].pending = @ \ {id}, ![r].failed = @ \cup {id}]
    /\ backendDone' = backendDone + 1
    /\ UNCHANGED <<cacheVars, stage, projectInfoCache, categoryListCache, onDemand, call>>
    /\ UNCHANGED <<config, http>>

ProjectsLoaded_SaveFirst(r, written) ==
    LET newCache == loadAllProjectInfoEnd(projectInfoCache, runs[r].fetched)
    IN  /\ runs[r].pc = "projects"
        /\ runs[r].pending = {}
        /\ projectInfoCache' = newCache
        /\ file' = saveToCache(file, projectInfoCache, now, written)
        /\ saved' = [valid |-> TRUE, written |-> written, X |-> projectInfoCache]
        /\ runs' = [runs EXCEPT ![r].pc = "categories",
                                ![r].catPending = loadAllCategoryListsStart(newCache)]
        /\ UNCHANGED <<now, ticks, ret, stage, categoryListCache, backendDone,
                       onDemand, call>>
        /\ UNCHANGED <<config, http>>

ProjectsLoaded_NoPersist(r, written) ==
    LET newCache == loadAllProjectInfoEnd(projectInfoCache, runs[r].fetched)
    IN  /\ runs[r].pc = "projects"
        /\ runs[r].pending = {}
        /\ projectInfoCache' = newCache
        /\ runs' = [runs EXCEPT ![r].pc = "categories",
                                ![r].catPending = loadAllCategoryListsStart(newCache)]
        /\ UNCHANGED <<now, ticks, file, saved, ret, stage, categoryListCache,
                       backendDone, onDemand, call>>
        /\ UNCHANGED <<config, http>>

(* loadAllProjectInfo returns; lines 88-94: saveToCache, then               *)
(* loadAllCategoryLists is started                                          *)
ProjectsLoaded(r, written) ==
    LET newCache == loadAllProjectInfoEnd(projectInfoCache, runs[r].fetched)
    IN  /\ runs[r].pc = "projects"
        /\ runs[r].pending = {}
        /\ projectInfoCache' = newCache
        /\ file' = saveToCache(file, newCache, now, written)
        /\ saved' = [valid |-> TRUE, written |-> written, X |-> newCache]
        /\ runs' = [runs EXCEPT ![r].pc = "categories",
                                ![r].catPending = loadAllCategoryListsStart(newCache)]
        /\ UNCHANGED <<now, ticks, ret, stage, categoryListCache, backendDone,
                       onDemand, call>>
        /\ UNCHANGED <<config, http>>

(* a getCategoryList of the batch succeeds *)
CategoryFetchOk(r, id, cats) ==
    /\ runs[r].pc = "categories"
    /\ id \in runs[r].catPending
    /\ runs' = [runs EXCEPT ![r].catPending = @ \ {id}]
    /\ categoryListCache' = MapSet(categoryListCache, id, cats)
    /\ backendDone' = backendDone + 1
    /\ UNCHANGED <<cacheVars, stage, projectInfoCache, onDemand, call>>
    /\ UNCHANGED <<config, http>>

(* a getCategoryList of the batch fails: the entry is left as it was *)
CategoryFetchFail(r, id) ==
    /\ runs[r].pc = "categories"
    /\ id \in runs[r].catPending
    /\ runs' = [runs EXCEPT ![r].catPending = @ \ {id}]
    /\ backendDone' = backendDone + 1
    /\ UNCHANGED <<cacheVars, stage, projectInfoCache, categoryListCache, onDemand, call>>
    /\ UNCHANGED <<config, http>>

(* loadAllCategoryLists returns; lines 95-97 *)
CategoriesLoaded(r) ==
    /\ runs[r].pc = "categories"
    /\ runs[r].catPending = {}
    /\ runs' = [runs EXCEPT ![r].pc = "done"]
    /\ UNCHANGED <<cacheVars, stage, projectInfoCache, categoryListCache,
                   backendDone, onDemand, call>>
    /\ UNCHANGED <<config, http>>

(* an awaited loader rejects; lines 98-101 log the error and rethrow it,   *)
(* which rejects the promise asyncUpdateCache returned.  With a .catch at  *)
(* the call the error is logged there; without one the rejection is        *)
(* unhandled and ends the process.  The loaders of the specification never *)
(* reject: the step belongs to SpecRefresh only.                           *)
RefreshRejects(r) ==
    /\ stage = "ready"
    /\ runs[r].pc \in {"projects", "categories"}
    /\ runs' = [runs EXCEPT ![r].pc = "rejected"]
    /\ stage' = IF runs[r].handled THEN stage ELSE "terminated"
    /\ UNCHANGED <<cacheVars, projectInfoCache, categoryListCache, backendDone,
                   onDemand, call>>
    /\ UNCHANGED <<config, http>>

----------------------------------------------------------------------------
(* Tool handlers, part_004 438-556, and the on-demand read of the           *)
(* specification.                                                           *)

(* miss: the addressed project was absent from an in-memory map the call   *)
(* reads; fetches: the backend calls made for the call; threw: the handler *)
(* threw instead of answering; sent: the optional fields of the params     *)
(* object handed to saveInterface; given: the optional arguments of a      *)
(* yapi_save_api call                                                      *)
Call(tool, id, answer, fetches, listed, entries) ==
    [tool |-> tool, projectId |-> id, answer |-> answer, fetches |-> fetches,
     miss |-> /\ tool # "yapi_list_projects"
              /\ \/ id \notin DOMAIN projectInfoCache
                 \/ tool = "yapi_get_categories" /\ id \notin DOMAIN categoryListCache,
     listed |-> listed, entries |-> entries, threw |-> FALSE, sent |-> {},
     given |-> NoArgs]

(* yapi_list_projects, part_004 442-474 *)
yapi_list_projects ==
    /\ stage = "ready"
    /\ call' = Call("yapi_list_projects", "",
                    IF Cardinality(DOMAIN projectInfoCache) = 0
                    THEN "no projects" ELSE "projects",
                    0, DOMAIN projectInfoCache, <<>>)
    /\ UNCHANGED <<cacheVars, stage, projectInfoCache, categoryListCache,
                   runs, backendDone, onDemand>>
    /\ UNCHANGED <<config, http>>

(* categoriesWithApis, part_004 504-541: Promise.all over one promise per  *)
(* cached category, in the order of the list.  failing is the set of       *)
(* positions whose getCategoryApis call fails; the catch of lines 525-537  *)
(* turns such a failure into an entry with an empty list and an error note, *)
(* so that no promise rejects.                                              *)
categoryEntry(cat, failed) ==
    [cat |-> cat, apis |-> IF failed THEN "error" ELSE "list"]

categoriesWithApis_NoInnerCatch(categoryList, failing) ==
    IF failing \cap DOMAIN categoryList # {}
    THEN [threw |-> TRUE, value |-> <<>>]
    ELSE [threw |-> FALSE,
          value |-> [i \in DOMAIN categoryList |-> categoryEntry(categoryList[i], FALSE)]]

categoriesWithApis(categoryList, failing) ==
    [threw |-> FALSE,
     value |-> [i \in DOMAIN categoryList |->
                  categoryEntry(categoryList[i], i \in failing)]]

(* yapi_get_categories, part_004 484-555; failing is the set of positions  *)
(* of the category list whose getCategoryApis call fails; the catch of     *)
(* lines 547-552 answers for anything thrown in the body                   *)
yapi_get_categories(projectId, failing) ==
    /\ stage = "ready"
    /\ IF projectId \notin DOMAIN projectInfoCache
       THEN /\ call' = Call("yapi_get_categories", projectId, "project not found",
                            0, {}, <<>>)
            /\ UNCHANGED <<backendDone, onDemand>>
       ELSE IF projectId \notin DOMAIN categoryListCache
               \/ Len(categoryListCache[projectId]) = 0
       THEN /\ call' = Call("yapi_get_categories", projectId, "no categories",
                            0, {}, <<>>)
            /\ UNCHANGED <<backendDone, onDemand>>
       ELSE LET categoryList == categoryListCache[projectId]
                r == categoriesWithApis(categoryList, failing)
            IN  /\ failing \subseteq DOMAIN categoryList
                /\ onDemand < MaxOnDemand
                /\ call' = Call("yapi_get_categories", projectId,
                                IF r.threw THEN "categories error" ELSE "categories",
                                Len(categoryList), {}, r.value)
                /\ backendDone' = backendDone + Len(categoryList)
                /\ onDemand' = onDemand + 1
    /\ UNCHANGED <<cacheVars, stage, projectInfoCache, categoryListCache, runs>>
    /\ UNCHANGED <<config, http>>

(* getProjectInfo(projectId) of the specification: a miss performs one     *)
(* fetch for that project; ok is whether the fetch succeeds                *)
getProjectInfo(projectId, ok, n) ==
    /\ stage = "ready"
    /\ IF projectId \in DOMAIN projectInfoCache
       THEN /\ call' = Call("getProjectInfo", projectId, "found", 0, {}, <<>>)
            /\ UNCHANGED <<projectInfoCache, backendDone, onDemand>>
       ELSE IF projectId \notin ProjectIds
       THEN /\ call' = Call("getProjectInfo", projectId, "unauthorized", 0, {}, <<>>)
            /\ UNCHANGED <<projectInfoCache, backendDone, onDemand>>
       ELSE /\ onDemand < MaxOnDemand
            /\ backendDone' = backendDone + 1
            /\ onDemand' = onDemand + 1
            /\ IF ok
               THEN /\ projectInfoCache' =
                         MapSet(projectInfoCache, projectId, [_id |-> projectId, name |-> n])
                    /\ call' = Call("getProjectInfo", projectId, "found", 1, {}, <<>>)
               ELSE /\ call' = Call("getProjectInfo", projectId, "failed", 1, {}, <<>>)
                    /\ UNCHANGED projectInfoCache
    /\ UNCHANGED <<cacheVars, stage, categoryListCache, runs>>
    /\ UNCHANGED <<config, http>>

----------------------------------------------------------------------------
(* The handlers that call the backend, part_004 106-435.  The body of each *)
(* is its try block; a result with threw = TRUE is an exception leaving    *)
(* it, which the handler's catch turns into a text payload.                *)

(* yapi_get_api_desc, 113-154; ok is whether getApiInterface resolves *)
getApiDescHandlerTry(ok) ==
    IF ok THEN [threw |-> FALSE, answer |-> "api"]
    ELSE [threw |-> TRUE, answer |-> ""]

getApiDescHandler(ok) ==
    LET r == getApiDescHandlerTry(ok)
    IN  IF r.threw THEN [threw |-> FALSE, answer |-> "api error"] ELSE r

(* yapi_search_apis, 331-434; ok is whether searchApis resolves *)
searchApisHandlerTry(ok) ==
    IF ok THEN [threw |-> FALSE, answer |-> "search results"]
    ELSE [threw |-> TRUE, answer |-> ""]

searchApisHandler(ok) ==
    LET r == searchApisHandlerTry(ok)
    IN  IF r.threw THEN [threw |-> FALSE, answer |-> "search error"] ELSE r

(* yapi_save_api, 208-318.  An optional string argument is "absent",       *)
(* "empty" (the empty string: falsy, and not JSON), "json" (non-empty,     *)
(* JSON.parse succeeds) or "notjson" (non-empty, JSON.parse throws).       *)
ArgForms == {"absent", "empty", "json", "notjson"}

JsonArgs == <<"req_params", "req_query", "req_headers", "req_body_form">>

(* the payloads of lines 231, 241, 251, 265 *)
ParseErrors ==
    <<"parse error: req_params", "parse error: req_query",
      "parse error: req_headers", "parse error: req_body_form">>

SaveArgs ==
    [tag : ArgForms, req_params : ArgForms, req_query : ArgForms,
     req_headers : ArgForms, req_body_form : ArgForms]

IdArgs == {"absent", "", "66"}

Truthy(str) == str \notin {"absent", ""}

(* the first of req_params, req_query, req_headers, req_body_form, in the  *)
(* order of lines 227-265, whose JSON.parse throws; 0 when none does       *)
FirstBadArg(args) ==
    IF \E i \in DOMAIN JsonArgs : args[JsonArgs[i]] = "notjson"
    THEN CHOOSE i \in DOMAIN JsonArgs :
            /\ args[JsonArgs[i]] = "notjson"
            /\ \A j \in 1 .. (i - 1) : args[JsonArgs[j]] # "notjson"
    ELSE 0

SaveParams_IdDefined(args, id) ==
    (IF id # "absent" THEN {"id"} ELSE {})
    \cup { JsonArgs[i] : i \in { j \in DOMAIN JsonArgs : args[JsonArgs[j]] = "json" } }

(* params as handed to saveInterface: the fields set conditionally *)
SaveParams(args, id) ==
    (IF Truthy(id) THEN {"id"} ELSE {})
    \cup { JsonArgs[i] : i \in { j \in DOMAIN JsonArgs : args[JsonArgs[j]] = "json" } }

saveApiHandlerTry(args, id, ok) ==
    IF args.tag = "notjson"
    THEN [threw |-> TRUE, answer |-> "", calls |-> 0, sent |-> {}]
    ELSE IF FirstBadArg(args) # 0
    THEN [threw |-> FALSE, answer |-> ParseErrors[FirstBadArg(args)], calls |-> 0,
          sent |-> {}]
    ELSE IF ~ok
    THEN [threw |-> TRUE, answer |-> "", calls |-> 1, sent |-> SaveParams(args, id)]
    ELSE [threw |-> FALSE, answer |-> IF Truthy(id) THEN "updated" ELSE "created",
          calls |-> 1, sent |-> SaveParams(args, id)]

saveApiHandler_NoCatch(args, id, ok) == saveApiHandlerTry(args, id, ok)

saveApiHandler(args, id, ok) ==
    LET r == saveApiHandlerTry(args, id, ok)
    IN  IF r.threw
        THEN [threw |-> FALSE, answer |-> "save error", calls |-> r.calls, sent |-> r.sent]
        ELSE r

yapi_get_api_desc(projectId, ok) ==
    /\ stage = "ready"
    /\ onDemand < MaxOnDemand
    /\ call' = [Call("yapi_get_api_desc", projectId, getApiDescHandler(ok).answer,
                     1, {}, <<>>)
                EXCEPT !.threw = getApiDescHandler(ok).threw]
    /\ backendDone' = backendDone + 1
    /\ onDemand' = onDemand + 1
    /\ UNCHANGED <<cacheVars, stage, projectInfoCache, categoryListCache, runs>>
    /\ UNCHANGED <<config, http>>

yapi_search_apis(ok) ==
    /\ stage = "ready"
    /\ onDemand < MaxOnDemand
    /\ call' = [Call("yapi_search_apis", "", searchApisHandler(ok).answer, 1, {}, <<>>)
                EXCEPT !.threw = searchApisHandler(ok).threw]
    /\ backendDone' = backendDone + 1
    /\ onDemand' = onDemand + 1
    /\ UNCHANGED <<cacheVars, stage, projectInfoCache, categoryListCache, runs>>
    /\ UNCHANGED <<config, http>>

yapi_save_api(projectId, args, id, ok) ==
    LET r == saveApiHandler(args, id, ok)
    IN  /\ stage = "ready"
        /\ r.calls > 0 => onDemand < MaxOnDemand
        /\ call' = [Call("yapi_save_api", projectId, r.answer, r.calls, {}, <<>>)
                    EXCEPT !.threw = r.threw, !.sent = r.sent,
                           !.given = [args |-> args, id |-> id]]
        /\ backendDone' = backendDone + r.calls
        /\ onDemand' = IF r.calls > 0 THEN onDemand + 1 ELSE onDemand
        /\ UNCHANGED <<cacheVars, stage, projectInfoCache, categoryListCache, runs>>
        /\ UNCHANGED <<config, http>>

Next ==
    \/ \E d \in ServerTickSteps : Tick(d)
    \/ \E d \in InitDelays : InitializeCache(d)
    \/ \E r \in DOMAIN runs, id \in ProjectIds, n \in Names : ProjectFetchOk(r, id, n)
    \/ \E r \in DOMAIN runs, id \in ProjectIds : ProjectFetchFail(r, id)
    \/ \E r \in DOMAIN runs, written \in BOOLEAN : ProjectsLoaded(r, written)
    \/ \E r \in DOMAIN runs, id \in ProjectIds, cats \in CategoryLists :
          CategoryFetchOk(r, id, cats)
    \/ \E r \in DOMAIN runs, id \in ProjectIds : CategoryFetchFail(r, id)
    \/ \E r \in DOMAIN runs : CategoriesLoaded(r)
    \/ yapi_list_projects
    \/ \E projectId \in ProjectIds \cup OtherIds, failing \in SUBSET (1..2) :
          yapi_get_categories(projectId, failing)
    \/ \E projectId \in ProjectIds \cup OtherIds, ok \in BOOLEAN, n \in Names :
          getProjectInfo(projectId, ok, n)

Spec == Init /\ [][Next]_vars

----------------------------------------------------------------------------
(* The five tool handlers on a running server.  The server is taken in two *)
(* of the states Spec reaches: right after a cold start, the refresh still *)
(* fetching, and after a refresh that loaded every project.                *)

FullMap == [id \in ProjectIds |-> [_id |-> id, name |-> "A"]]

Refreshing ==
    /\ file = NoFile("missing")
    /\ saved = NotSaved
    /\ projectInfoCache = EmptyMap
    /\ categoryListCache = <<>>
    /\ runs = WithHandler(<<loadAllProjectInfoStart>>, TRUE)
    /\ backendDone = 0

Refreshed ==
    /\ file = CacheData(1, StartTime, FullMap)
    /\ saved = [valid |-> TRUE, written |-> TRUE, X |-> FullMap]
    /\ projectInfoCache = FullMap
    /\ categoryListCache = [id \in ProjectIds |-> IF id = "10" THEN <<"c1", "c2">> ELSE <<>>]
    /\ runs = <<[pc |-> "done", pending |-> {}, fetched |-> FullMap, failed |-> {},
                 catPending |-> {}, handled |-> TRUE]>>
    /\ backendDone = 4

InitTools ==
    /\ now = StartTime
    /\ ticks = 0
    /\ ret = NoRet
    /\ stage = "ready"
    /\ Refreshing \/ Refreshed
    /\ onDemand = 0
    /\ call = NoCall
    /\ config = Configured(DefaultCredentials)
    /\ http = NoHttp

(* the save requests that supply at most tag and req_params *)
ShortSaveArgs ==
    { a \in SaveArgs : /\ a.req_query = "absent"
                       /\ a.req_headers = "absent"
                       /\ a.req_body_form = "absent" }

NextTools ==
    \/ \E projectId \in ProjectIds \cup OtherIds, ok \in BOOLEAN :
          yapi_get_api_desc(projectId, ok)
    \/ \E projectId \in ProjectIds, args \in ShortSaveArgs, id \in IdArgs, ok \in BOOLEAN :
          yapi_save_api(projectId, args, id, ok)
    \/ \E ok \in BOOLEAN : yapi_search_apis(ok)
    \/ yapi_list_projects
    \/ \E projectId \in ProjectIds \cup OtherIds, failing \in SUBSET (1..2) :
          yapi_get_categories(projectId, failing)

SpecTools == InitTools /\ [][NextTools]_vars

(* One yapi_save_api request: the arguments of the request are drawn at    *)
(* the start and recorded in call.given, and the handler answers it once.  *)
InitSave ==
    /\ now = StartTime
    /\ ticks = 0
    /\ ret = NoRet
    /\ stage = "ready"
    /\ Refreshing \/ Refreshed
    /\ onDemand = 0
    /\ \E args \in SaveArgs, id \in IdArgs :
          call = [NoCall EXCEPT !.given = [args |-> args, id |-> id]]
    /\ config = Configured(DefaultCredentials)
    /\ http = NoHttp

NextSave ==
    \E projectId \in ProjectIds, ok \in BOOLEAN :
       /\ call.tool = "none"
       /\ yapi_save_api(projectId, call.given.args, call.given.id, ok)

SpecSave == InitSave /\ [][NextSave]_vars

----------------------------------------------------------------------------
(* getServerConfig on its own, for any credential table.                   *)

getServerConfig ==
    /\ config.logged = <<>>
    /\ config' = [config EXCEPT !.logged = LoggedToken(config.yapiToken)]
    /\ UNCHANGED <<cacheVars, serverVars, http>>

InitConfig ==
    /\ now = StartTime
    /\ ticks = 0
    /\ file = NoFile("missing")
    /\ ret = NoRet
    /\ saved = NotSaved
    /\ stage = "constructing"
    /\ projectInfoCache = EmptyMap
    /\ categoryListCache = <<>>
    /\ runs = <<>>
    /\ backendDone = 0
    /\ onDemand = 0
    /\ call = NoCall
    /\ \E entries \in CredentialTables :
          config = [entries |-> entries, yapiToken |-> CredentialString(entries),
                    logged |-> <<>>]
    /\ http = NoHttp

NextConfig == getServerConfig

SpecConfig == InitConfig /\ [][NextConfig]_vars

----------------------------------------------------------------------------
(* startHttpServer on its own: the two routes and clients that disconnect. *)

GetSse ==
    /\ http.created < MaxSse
    /\ http' = [http EXCEPT !.created = @ + 1,
                            !.sseTransport = sseTransportAfterGet(@, http.created + 1)]
    /\ UNCHANGED <<cacheVars, serverVars, config>>

(* the client of transport k goes away; no handler of the server reacts *)
ClientDisconnects(k) ==
    /\ k \in (1 .. http.created) \ http.closed
    /\ http' = [http EXCEPT !.closed = @ \cup {k}]
    /\ UNCHANGED <<cacheVars, serverVars, config>>

PostMessages ==
    /\ http' = [http EXCEPT !.post =
                   [status |-> postMessages(http.sseTransport).status,
                    by |-> postMessages(http.sseTransport).by,
                    after |-> http.created,
                    open |-> postMessages(http.sseTransport).by \in
                               (1 .. http.created) \ http.closed]]
    /\ UNCHANGED <<cacheVars, serverVars, config>>

InitHttp ==
    /\ now = StartTime
    /\ ticks = 0
    /\ file = NoFile("missing")
    /\ ret = NoRet
    /\ saved = NotSaved
    /\ stage = "ready"
    /\ projectInfoCache = EmptyMap
    /\ categoryListCache = <<>>
    /\ runs = WithHandler(<<loadAllProjectInfoStart>>, TRUE)
    /\ backendDone = 0
    /\ onDemand = 0
    /\ call = NoCall
    /\ config = Configured(DefaultCredentials)
    /\ http = NoHttp

NextHttp ==
    \/ GetSse
    \/ \E k \in 1 .. MaxSse : ClientDisconnects(k)
    \/ PostMessages

SpecHttp == InitHttp /\ [][NextHttp]_vars

----------------------------------------------------------------------------
(* The refresh with loaders that may also reject as a whole.               *)

NextRefresh ==
    \/ \E d \in InitDelays : InitializeCache(d)
    \/ \E r \in DOMAIN runs, id \in ProjectIds, n \in Names : ProjectFetchOk(r, id, n)
    \/ \E r \in DOMAIN runs, id \in ProjectIds : ProjectFetchFail(r, id)
    \/ \E r \in DOMAIN runs, written \in BOOLEAN : ProjectsLoaded(r, written)
    \/ \E r \in DOMAIN runs, id \in ProjectIds, cats \in CategoryLists :
          CategoryFetchOk(r, id, cats)
    \/ \E r \in DOMAIN runs, id \in ProjectIds : CategoryFetchFail(r, id)
    \/ \E r \in DOMAIN runs : CategoriesLoaded(r)
    \/ \E r \in DOMAIN runs : RefreshRejects(r)
    \/ yapi_list_projects
    \/ \E projectId \in ProjectIds \cup OtherIds, failing \in SUBSET (1..2) :
          yapi_get_categories(projectId, failing)

SpecRefresh == Init /\ [][NextRefresh]_vars

----------------------------------------------------------------------------
(* The server's reads of the cache and of the in-memory maps, together     *)
(* with an operator calling the cache's read methods and clearCache.       *)

NextReads ==
    \/ \E d \in TickSteps : Tick(d)
    \/ CallIsCacheExpired
    \/ CallLoadFromCache
    \/ \E removed \in BOOLEAN : CallClearCache(removed)
    \/ \E d \in InitDelays : InitializeCache(d)
    \/ yapi_list_projects
    \/ \E projectId \in ProjectIds \cup OtherIds, failing \in SUBSET (1..2) :
          yapi_get_categories(projectId, failing)
    \/ \E projectId \in ProjectIds \cup OtherIds, ok \in BOOLEAN, n \in Names :
          getProjectInfo(projectId, ok, n)

SpecReads == Init /\ [][NextReads]_vars

----------------------------------------------------------------------------
(* C1: a full refresh in which every per-project fetch fails leaves the    *)
(* in-memory project map and the durable snapshot (content and timestamp)  *)
(* unchanged: the step that ends project loading with zero successes       *)
(* changes neither projectInfoCache nor file.                              *)
C1_ZeroSuccessLeavesCacheUntouched ==
    [][\A r \in DOMAIN runs :
          (/\ runs[r].pc = "projects"
           /\ runs'[r].pc = "categories"
           /\ DOMAIN runs[r].fetched = {})
          => (projectInfoCache' = projectInfoCache /\ file' = file)]_vars

(* C2: at most one asyncUpdateCache is in flight at any time, and a run    *)
(* that has started is neither joined by a second one nor cancelled.       *)
InFlight(rs) == { r \in DOMAIN rs : rs[r].pc # "done" }

PcRank(pc) == IF pc = "projects" THEN 0 ELSE IF pc = "categories" THEN 1 ELSE 2

C2_SingleFlight ==
    /\ [](Cardinality(InFlight(runs)) <= 1 /\ Len(runs) <= 1)
    /\ [][/\ Len(runs') >= Len(runs)
          /\ \A r \in DOMAIN runs : PcRank(runs'[r].pc) >= PcRank(runs[r].pc)]_vars

C2_RefreshInFlight ==
    /\ stage = "ready"
    /\ Cardinality(InFlight(runs)) = 1
    /\ call.tool # "none"

(* C3: a tool call that addresses a credentialed project absent from the   *)
(* in-memory maps performs exactly one backend fetch for it before it      *)
(* answers; yapi_get_categories never answers "not found" or "no           *)
(* categories" for such a project without that fetch.                      *)
C3_MissIsFetchedOnce ==
    (/\ call.tool \in {"yapi_get_categories", "getProjectInfo"}
     /\ call.projectId \in ProjectIds
     /\ call.miss)
    => call.fetches = 1

(* C4: loadFromCache treats a snapshot whose schema version is not 1 as    *)
(* absent: it returns the empty map for it.                                *)
C4_VersionMismatchIsAbsent ==
    (/\ ret.op = "loadFromCache"
     /\ ret.file.kind = "object"
     /\ ret.file.version # 1)
    => ret.loaded = EmptyMap

(* C5: loadFromCache and isCacheExpired never throw; for a snapshot file   *)
(* that is missing, unreadable, not valid JSON or without a timestamp,     *)
(* loadFromCache returns the empty map and isCacheExpired returns true.    *)
Unusable(f) == f.kind \in {"missing", "unreadable", "corrupt", "null"} \/ f.timestamp = 0

C5_NeverThrows ==
    /\ ret.op \in {"loadFromCache", "isCacheExpired"} => ~ret.threw
    /\ (ret.op = "loadFromCache" /\ Unusable(ret.file)) => ret.loaded = EmptyMap
    /\ (ret.op = "isCacheExpired" /\ Unusable(ret.file)) => ret.expired

C5_CorruptFileLoaded ==
    /\ ret.op = "loadFromCache"
    /\ ret.file.kind \in {"unreadable", "corrupt"}
    /\ ~ret.threw
    /\ ret.loaded = EmptyMap

(* C6: isCacheExpired is true when no snapshot exists and otherwise is     *)
(* exactly now > timestamp + ttl*60000: with ttl 360, true at 361 minutes, *)
(* false at 359 and at exactly 360; once true for a snapshot it stays true *)
(* for as long as the file is not written again.                           *)
AgeMs(r) == r.at - r.file.timestamp

C6_ExpiryIsStrict ==
    /\ [](ret.op = "isCacheExpired" =>
            /\ ret.file.kind = "missing" => ret.expired
            /\ (ret.file.kind = "object" /\ ret.file.timestamp # 0) =>
                 /\ ret.expired <=> (ret.at > ret.file.timestamp + 360 * 60000)
                 /\ AgeMs(ret) = 361 * 60000 => ret.expired
                 /\ AgeMs(ret) = 359 * 60000 => ~ret.expired
                 /\ AgeMs(ret) = 360 * 60000 => ~ret.expired)
    /\ [][(file' = file /\ isCacheExpired(file, now, DefaultTTL).value)
            => isCacheExpired(file', now', DefaultTTL).value]_vars

C6_ExactlyAtTTL ==
    /\ ret.op = "isCacheExpired"
    /\ ret.file.kind = "object"
    /\ ret.file.timestamp # 0
    /\ AgeMs(ret) = 360 * 60000
    /\ ~ret.expired

C8_PartialFailureIsolated ==
    [][\A r \in DOMAIN runs :
          (/\ runs[r].pc = "projects"
           /\ runs'[r].pc = "categories"
           /\ DOMAIN runs[r].fetched # {}
           /\ runs[r].failed # {})
          => /\ DOMAIN runs[r].fetched \cup runs[r].failed = ProjectIds
             /\ DOMAIN projectInfoCache' = DOMAIN projectInfoCache \cup DOMAIN runs[r].fetched
             /\ \A id \in DOMAIN runs[r].fetched : projectInfoCache'[id] = runs[r].fetched[id]
             /\ \A id \in DOMAIN projectInfoCache \ DOMAIN runs[r].fetched :
                   projectInfoCache'[id] = projectInfoCache[id]
             /\ saved'.valid /\ saved'.X = projectInfoCache'
             /\ saved'.written =>
                   /\ file'.kind = "object"
                   /\ file'.timestamp = now
                   /\ file'.data = projectInfoCache']_vars

C8_TenLoadedTwentyFailed ==
    \E r \in DOMAIN runs :
        /\ runs[r].pc = "done"
        /\ DOMAIN runs[r].fetched = {"10"}
        /\ runs[r].failed = {"20"}
        /\ DOMAIN projectInfoCache = {"10"}
        /\ file.kind = "object"
        /\ file.data = projectInfoCache

(* C9: when the snapshot is absent or expired at startup, initializeCache  *)
(* launches the refresh and completes before any backend call completes,   *)
(* leaving the project map empty; a yapi_list_projects call made before    *)
(* any backend call has completed lists no project.                        *)
AbsentOrExpired(f, t) ==
    \/ f.kind # "object"
    \/ f.timestamp = 0
    \/ t > f.timestamp + 360 * 60000

C9_InitDoesNotAwaitRefresh ==
    /\ [][(stage = "constructing" /\ stage' = "ready" /\ AbsentOrExpired(file, now))
            => /\ Len(runs') = 1
               /\ runs'[1].pc = "projects"
               /\ runs'[1].pending = ProjectIds
               /\ backendDone' = 0
               /\ projectInfoCache' = EmptyMap]_vars
    /\ [][(stage = "ready" /\ Len(runs) = 1 /\ backendDone = 0
           /\ call'.tool = "yapi_list_projects" /\ call' # call)
            => /\ call'.listed = {}
               /\ call'.answer = "no projects"]_vars

C9_ListedWhileRefreshing ==
    /\ stage = "ready"
    /\ file.kind = "missing"
    /\ backendDone = 0
    /\ Len(runs) = 1
    /\ runs[1].pending = ProjectIds
    /\ call.tool = "yapi_list_projects"
    /\ call.listed = {}

(* C10, as claimed: when the snapshot is present, non-empty and not        *)
(* expired when initializeCache starts, the project map is populated with  *)
(* exactly the snapshot's entries and no refresh is launched.              *)
UsableSnapshot(f) ==
    /\ f.kind = "object"
    /\ f.timestamp # 0
    /\ f.hasData
    /\ DOMAIN f.data # {}

C10_WarmStart ==
    [][(/\ stage = "constructing" /\ stage' = "ready"
        /\ UsableSnapshot(file)
        /\ ~(now > file.timestamp + 360 * 60000))
         => /\ projectInfoCache' = file.data
            /\ runs' = <<>>]_vars

(* C10, amended: when the snapshot is present, non-empty and not expired   *)
(* both at initializeCache's isCacheExpired check and when loadFromCache   *)
(* evaluates expiry again, the project map is populated with exactly the   *)
(* snapshot's entries and no refresh is launched.                          *)
C10_WarmStartWhileFresh ==
    [][(/\ stage = "constructing" /\ stage' = "ready"
        /\ UsableSnapshot(file)
        /\ ~(now' > file.timestamp + 360 * 60000))
         => /\ projectInfoCache' = file.data
            /\ runs' = <<>>]_vars

C10_Warm ==
    /\ stage = "ready"
    /\ runs = <<>>
    /\ UsableSnapshot(file)
    /\ projectInfoCache = file.data

(* C11: whenever initializeCache has finished, either the in-memory project *)
(* map holds at least one entry taken from the snapshot or a refresh has    *)
(* been launched; a snapshot that is absent, expired, unreadable, not JSON, *)
(* without a timestamp or without entries always ends in a launch.          *)
C11_InitRecovers ==
    /\ [](stage = "ready" => (Len(runs) >= 1 \/ DOMAIN projectInfoCache # {}))
    /\ [][(stage = "constructing" /\ stage' = "ready")
            => /\ \/ Len(runs') = 1
                  \/ /\ UsableSnapshot(file)
                     /\ projectInfoCache' = file.data
               /\ (AbsentOrExpired(file, now) \/ ~UsableSnapshot(file))
                     => Len(runs') = 1]_vars

C11_EmptySnapshotRefreshed ==
    /\ stage = "ready"
    /\ file.kind = "object"
    /\ file.timestamp = StartTime
    /\ DOMAIN file.data = {}
    /\ projectInfoCache = EmptyMap
    /\ Len(runs) = 1
    /\ runs[1].pending = ProjectIds

(* C12: no operation of ProjectInfoCache raises an error to its caller     *)
(* when durable storage is missing, unreadable or unwritable: neither the  *)
(* constructor (which creates the cache directory) nor saveToCache,        *)
(* loadFromCache, isCacheExpired or clearCache.                            *)
C12_StorageFailuresStayInside ==
    ret.op \in {"constructor", "saveToCache", "loadFromCache", "isCacheExpired",
                "clearCache"}
    => ~ret.threw

(* C13: a snapshot file left half-written by an interrupted saveToCache is *)
(* never accepted: loadFromCache on it returns the empty map, never a map  *)
(* built from the part that was written, and isCacheExpired reports it     *)
(* expired; neither throws.                                                *)
C13_HalfWrittenIsAbsent ==
    /\ (ret.op = "loadFromCache" /\ ret.file.kind = "truncated")
         => (~ret.threw /\ ret.loaded = EmptyMap)
    /\ (ret.op = "isCacheExpired" /\ ret.file.kind = "truncated")
         => (~ret.threw /\ ret.expired)

C13_HalfWrittenLoaded ==
    /\ ret.file.kind = "truncated"
    /\ ret.file.timestamp = ret.at
    /\ ret.file.hasData
    /\ DOMAIN ret.file.data = ProjectIds
    /\ saved.valid /\ ~saved.written
    /\ \/ ret.op = "loadFromCache" /\ ret.loaded = EmptyMap
       \/ ret.op = "isCacheExpired" /\ ret.expired

(* C14: the snapshot file is removed only by clearCache: isCacheExpired,   *)
(* loadFromCache, initializeCache and the tool calls leave the file as it  *)
(* is (existence, content, timestamp), also when they find it expired or   *)
(* invalid.                                                                *)
C14_OnlyClearRemoves ==
    [][/\ (existsSync(file) /\ ~existsSync(file'))
            => (ret'.op = "clearCache" /\ ret'.file = file)
       /\ (ret'.op \in {"isCacheExpired", "loadFromCache"} /\ ret' # ret)
            => file' = file
       /\ (call' # call \/ stage' # stage) => file' = file]_vars

C14_ExpiredStillThere ==
    /\ ret.op = "loadFromCache"
    /\ ret.file = file
    /\ file.kind = "object"
    /\ ret.at > file.timestamp + 360 * 60000
    /\ ret.loaded = EmptyMap
    /\ stage = "ready"
    /\ call.tool = "yapi_get_categories"

(* C15: clearCache is idempotent.  After a clearCache that logged no       *)
(* failure the snapshot is absent: isCacheExpired is true and              *)
(* loadFromCache returns the empty map; a clearCache on an absent snapshot *)
(* raises no error, logs none and changes nothing.                         *)
C15_ClearIsIdempotent ==
    /\ []((ret.op = "clearCache" /\ ~ret.logged)
            => /\ ~ret.threw
               /\ ~existsSync(file)
               /\ isCacheExpired(file, now, DefaultTTL).value
               /\ loadFromCache(file, now, DefaultTTL).value = EmptyMap)
    /\ []((ret.op \in {"isCacheExpired", "loadFromCache"} /\ ~saved.valid
           /\ ~existsSync(ret.file))
            => (ret.expired \/ ret.op = "loadFromCache") /\ ret.loaded = EmptyMap)
    /\ [][(ret'.op = "clearCache" /\ ret' # ret /\ ~existsSync(file))
            => /\ file' = file
               /\ ~ret'.threw
               /\ ~ret'.logged]_vars

C15_ClearedTwice ==
    /\ ret.op = "clearCache"
    /\ ~ret.logged
    /\ ~existsSync(ret.file)
    /\ ~existsSync(file)
    /\ ticks > 0

(* C16: a background refresh never terminates the process.  Every          *)
(* asyncUpdateCache launched by initializeCache carries a rejection        *)
(* handler; when a run fails, whatever number of its project or category   *)
(* fetches failed, the server stays ready to serve tool calls and the maps *)
(* and the snapshot are left as they were.                                 *)
C16_RefreshFailureIsContained ==
    /\ [](stage # "terminated")
    /\ [](\A r \in DOMAIN runs : runs[r].handled)
    /\ [][\A r \in DOMAIN runs :
            (runs[r].pc # "rejected" /\ runs'[r].pc = "rejected")
            => /\ stage' = "ready"
               /\ UNCHANGED <<projectInfoCache, categoryListCache, file>>]_vars

C16_ServedAfterRejection ==
    /\ stage = "ready"
    /\ \E r \in DOMAIN runs :
          /\ runs[r].pc = "rejected"
          /\ runs[r].failed = ProjectIds
    /\ call.tool = "yapi_list_projects"
    /\ call.answer = "no projects"

(* C17: every tool handler (yapi_get_api_desc, yapi_save_api,              *)
(* yapi_search_apis, yapi_list_projects, yapi_get_categories) returns a    *)
(* text payload and never throws: a failing backend call and a malformed   *)
(* argument, a tag that is not JSON included, end in a failure payload.    *)
ToolNames ==
    {"yapi_get_api_desc", "yapi_save_api", "yapi_search_apis",
     "yapi_list_projects", "yapi_get_categories"}

FailurePayloads ==
    {"api error", "save error", "search error", "project not found"}
    \cup { ParseErrors[i] : i \in DOMAIN ParseErrors }

C17_HandlersAlwaysAnswer ==
    /\ call.tool \in ToolNames => (~call.threw /\ call.answer # "")
    /\ (call.tool = "yapi_save_api" /\ call.fetches = 0)
         => call.answer \in FailurePayloads
    /\ (call.tool = "yapi_get_categories" /\ call.answer = "categories")
         => Len(call.entries) = call.fetches

C17_BadTagAnswered ==
    /\ call.tool = "yapi_save_api"
    /\ call.answer = "save error"
    /\ call.fetches = 0
    /\ ~call.threw

(* C18: no credential token is written to the log in full.  The logged     *)
(* line shows the credential string as the fixed mask followed by at most  *)
(* its last 4 characters (the mask alone when the string has 4 characters  *)
(* or fewer), and for every configured project at least one character of   *)
(* that project's token is hidden.                                         *)
Shown(str, line) == { p \in 1 .. Len(str) : p > Len(str) - (Len(line) - Len(Mask)) }

TokenPositions(entries, i) ==
    LET before == IF i = 1 THEN 0
                  ELSE Len(CredentialString(SubSeq(entries, 1, i - 1))) + 1
        first == before + Len(entries[i].id) + 2
    IN  first .. (first + Len(entries[i].token) - 1)

C18_NoTokenLoggedInFull ==
    (config.logged # <<>> /\ config.yapiToken # <<>>)
    => /\ SubSeq(config.logged, 1, Len(Mask)) = Mask
       /\ Len(config.logged) <= Len(Mask) + 4
       /\ Len(config.yapiToken) <= 4 => config.logged = Mask
       /\ \A p \in Shown(config.yapiToken, config.logged) :
             config.logged[Len(config.logged) - (Len(config.yapiToken) - p)]
               = config.yapiToken[p]
       /\ \A i \in DOMAIN config.entries :
             \E p \in TokenPositions(config.entries, i) :
                p \notin Shown(config.yapiToken, config.logged)

(* C19: asyncUpdateCache loads all project info, then persists the         *)
(* in-memory project map, then loads the category lists.  The snapshot is  *)
(* written only at the end of project loading and holds the project map as *)
(* it stands then, never category data; nothing that happens while the     *)
(* categories load, a failure included, changes the snapshot or the        *)
(* project map.                                                            *)
C19_PersistBetweenLoads ==
    /\ [](\A r \in DOMAIN runs : runs[r].pc = "projects" => runs[r].catPending = {})
    /\ [](file.kind = "object" => \A id \in DOMAIN file.data : file.data[id] \in ProjectInfo)
    /\ [][/\ \A r \in DOMAIN runs :
               /\ (runs[r].pc = "projects" /\ runs'[r].pc = "categories")
                    => /\ saved'.valid
                       /\ saved'.X = projectInfoCache'
                       /\ saved'.written
                            => file' = CacheData(1, now, projectInfoCache')
                       /\ categoryListCache' = categoryListCache
               /\ runs[r].pc = "categories"
                    => (file' = file /\ projectInfoCache' = projectInfoCache)
          /\ categoryListCache' # categoryListCache
               => \E r \in DOMAIN runs : runs[r].pc = "categories"
          /\ file' # file
               => \E r \in DOMAIN runs :
                     runs[r].pc = "projects" /\ runs'[r].pc = "categories"]_vars

C19_CategoriesFailedSnapshotKept ==
    /\ \E r \in DOMAIN runs :
          /\ runs[r].pc = "rejected"
          /\ DOMAIN runs[r].fetched = ProjectIds
          /\ runs[r].catPending = {"20"}
    /\ saved.written
    /\ file = CacheData(1, now, projectInfoCache)
    /\ DOMAIN projectInfoCache = ProjectIds
    /\ categoryListCache = <<>>

(* C20: a warm start makes no backend call and fills only the project map. *)
(* After initializeCache on a snapshot that is valid, non-empty and not    *)
(* expired while initializeCache reads it, no refresh has been launched    *)
(* and the category map is empty; it stays empty as long as no refresh     *)
(* runs, so yapi_get_categories for a project of the project map answers   *)
(* "no categories" without fetching a category list.                       *)
C20_WarmStartHasNoCategories ==
    /\ [][(/\ stage = "constructing" /\ stage' = "ready"
           /\ UsableSnapshot(file)
           /\ ~(now' > file.timestamp + 360 * 60000))
            => /\ runs' = <<>>
               /\ backendDone' = 0
               /\ DOMAIN projectInfoCache' # {}
               /\ categoryListCache' = <<>>]_vars
    /\ []((stage = "ready" /\ runs = <<>>) => categoryListCache = <<>>)
    /\ [][(/\ stage = "ready" /\ runs = <<>>
           /\ call'.tool = "yapi_get_categories" /\ call' # call
           /\ call'.projectId \in DOMAIN projectInfoCache)
            => /\ call'.answer = "no categories"
               /\ call'.fetches = 0
               /\ backendDone' = backendDone]_vars

C20_NoCategoriesAfterWarmStart ==
    /\ stage = "ready"
    /\ runs = <<>>
    /\ UsableSnapshot(file)
    /\ projectInfoCache = file.data
    /\ backendDone = 0
    /\ call.tool = "yapi_get_categories"
    /\ call.projectId \in DOMAIN projectInfoCache
    /\ call.answer = "no categories"

(* C21: the in-memory project map is never populated from an expired       *)
(* snapshot.  loadFromCache evaluates expiry itself, at the time of the    *)
(* load: when the snapshot is expired then, also when it was not yet       *)
(* expired at initializeCache's own isCacheExpired check, the load returns *)
(* the empty map, initializeCache leaves the project map empty and         *)
(* launches a refresh.                                                     *)
ExpiredAt(f, t) == f.kind = "object" /\ f.timestamp # 0 /\ t > f.timestamp + 360 * 60000

C22_PostRouting ==
    /\ [](http.post.status # "none" =>
            /\ http.post.status = "400" <=> http.post.after = 0
            /\ http.post.after > 0 =>
                 (http.post.status = "handled" /\ http.post.by = http.post.after))
    /\ [](http.sseTransport = http.created)
    /\ [][http'.closed # http.closed => http'.sseTransport = http.sseTransport]_vars

C22_PostAfterDisconnect ==
    /\ http.created = 2
    /\ http.closed = {1, 2}
    /\ http.post.status = "handled"
    /\ http.post.by = 2
    /\ ~http.post.open

(* C23, as claimed: yapi_save_api makes no saveInterface call when any of  *)
(* req_params, req_query, req_headers, req_body_form or tag is supplied    *)
(* and is not valid JSON, and answers with a failure payload reporting the *)
(* parse error; when every supplied one parses, exactly one saveInterface  *)
(* call is made, carrying an id field iff a non-empty id was supplied.     *)
ArgNames == {"tag", "req_params", "req_query", "req_headers", "req_body_form"}

ParseFailures == { ParseErrors[i] : i \in DOMAIN ParseErrors } \cup {"save error"}

C23_SaveParsesFirst ==
    call.tool = "yapi_save_api"
    => /\ (\E a \in ArgNames : call.given.args[a] \in {"empty", "notjson"})
            => (call.fetches = 0 /\ call.answer \in ParseFailures)
       /\ (\A a \in ArgNames : call.given.args[a] \in {"absent", "json"})
            => /\ call.fetches = 1
               /\ "id" \in call.sent <=> call.given.id \notin {"absent", ""}

(* C23, amended: the same for arguments supplied as non-empty strings.  An *)
(* argument supplied as the empty string is treated as not supplied: it is *)
(* not parsed and does not prevent the save.                               *)
C23_SaveParsesNonEmptyFirst ==
    call.tool = "yapi_save_api"
    => /\ (\E a \in ArgNames : call.given.args[a] = "notjson")
            => (call.fetches = 0 /\ call.sent = {} /\ call.answer \in ParseFailures)
       /\ (\A a \in ArgNames : call.given.args[a] # "notjson")
            => /\ call.fetches = 1
               /\ "id" \in call.sent <=> call.given.id \notin {"absent", ""}
               /\ \A i \in DOMAIN JsonArgs :
                     JsonArgs[i] \in call.sent <=> call.given.args[JsonArgs[i]] = "json"

C23_SecondArgumentRejected ==
    /\ call.tool = "yapi_save_api"
    /\ call.given.args.req_params = "json"
    /\ call.given.args.req_query = "notjson"
    /\ call.given.id = "66"
    /\ call.answer = "parse error: req_query"
    /\ call.fetches = 0

(* C24: yapi_get_categories isolates per-category failures.  A call for a  *)
(* cached project with a non-empty cached category list is answered with   *)
(* the category listing, never with the failure payload: one entry per     *)
(* cached category, in cached order, after one getCategoryApis call per    *)
(* category.  The entry of a category whose fetch fails has the empty list *)
(* with the error note, and the entry of a category depends only on        *)
(* whether its own fetch failed, not on the fetches of the others.         *)
HasCategories(projectId) ==
    /\ projectId \in DOMAIN projectInfoCache
    /\ projectId \in DOMAIN categoryListCache
    /\ Len(categoryListCache[projectId]) > 0

C24_FailuresStayInTheirCategory ==
    /\ [][ \A projectId \in ProjectIds, failing \in SUBSET (1..2) :
             (HasCategories(projectId) /\ yapi_get_categories(projectId, failing))
             => LET categoryList == categoryListCache[projectId]
                IN  /\ call'.answer = "categories"
                    /\ ~call'.threw
                    /\ call'.fetches = Len(categoryList)
                    /\ Len(call'.entries) = Len(categoryList)
                    /\ \A i \in DOMAIN categoryList :
                          /\ call'.entries[i].cat = categoryList[i]
                          /\ call'.entries[i].apis = IF i \in failing THEN "error" ELSE "list"
         ]_vars
    /\ [](\A projectId \in DOMAIN categoryListCache :
             LET categoryList == categoryListCache[projectId]
             IN  \A F \in SUBSET DOMAIN categoryList, G \in SUBSET DOMAIN categoryList :
                    /\ DOMAIN categoriesWithApis(categoryList, F).value = DOMAIN categoryList
                    /\ DOMAIN categoriesWithApis(categoryList, G).value = DOMAIN categoryList
                    /\ \A i \in DOMAIN categoryList :
                          (i \in F <=> i \in G)
                          => categoriesWithApis(categoryList, F).value[i]
                               = categoriesWithApis(categoryList, G).value[i])

C24_OneOfTwoCategoriesFailed ==
    /\ call.tool = "yapi_get_categories"
    /\ call.answer = "categories"
    /\ Len(call.entries) = 2
    /\ call.entries[1].apis = "error"
    /\ call.entries[2].apis = "list"
    /\ call.fetches = 2

====
